---- MODULE Spec2Model ----
(***************************************************************************)
(* Output stage of Confluence: per-reach module result files are aligned   *)
(* onto the reach/node index space of the SoS archive and written into a   *)
(* new results file (output/Append.py, output/modules/*.py, run_output.py).*)
(*                                                                         *)
(* Values are modelled as strings: a number is the string of its digits,   *)
(* NaN is "nan", a masked entry of a numpy masked array is "--".  A        *)
(* variable-length payload (one numpy array per row) is one token.         *)
(* Every call is bound the way its callee declares its parameters: the     *)
(* positional-argument counts of the call sites are not modelled.          *)
(***************************************************************************)
EXTENDS Integers, Sequences, FiniteSets, TLC

\* ---------------------------------------------------------------- bounds
NT == 2

\* ------------------------------------------------------- program constants
VERS_LENGTH == 4

NaN == "nan"

Masked == "--"

Empty == ""

FILL == [f8 |-> "-999999999999", i4 |-> "-999", S1 |-> "x"]

\* the two reaches whose per-node results do not match the topology
RID_TRAILING == "77444000061"

RID_LEADING == "77444000073"

\* ------------------------------------------------------------- topologies
Topo1 ==
  [reach_ids      |-> <<"10", "20", "30">>,
   node_ids       |-> <<"101", "102", "201", "301", "302">>,
   node_reach_ids |-> <<"10", "10", "20", "30", "30">>]

Topo2 ==
  [reach_ids      |-> <<"77444000061", "77444000073", "77449100071">>,
   node_ids       |-> <<"611", "612", "613", "731", "732", "711">>,
   node_reach_ids |-> <<"77444000061", "77444000061", "77444000061",
                        "77444000073", "77444000073", "77449100071">>]

Topologies == {Topo1, Topo2}

AllReaches == {"10", "20", "30", "77444000061", "77444000073", "77449100071"}

\* ------------------------------------------------------------ sequences
Range(s) == {s[i] : i \in DOMAIN s}

\* np.where(arr == v)[0]: the ascending positions of v in arr
RECURSIVE WhereFrom(_, _, _)
WhereFrom(arr, v, k) ==
  IF k > Len(arr) THEN << >>
  ELSE (IF arr[k] = v THEN <<k>> ELSE << >>) \o WhereFrom(arr, v, k + 1)

Where(arr, v) == WhereFrom(arr, v, 1)

\* ------------------------------------------------------------- modules
Modules ==
  {"hivdi", "metroman", "sad", "sic4dvar", "geobam", "moi", "validation",
   "prediagnostics", "swot", "consensus"}

\* the state of one result file on disk
FileKinds == {"absent", "good", "masked", "corrupt", "nofield"}

Present(k) == k # "absent"

Readable(k) == k \in {"good", "masked"}

\* the known value a good file of reach r holds in each of its fields
KnownValue ==
  [r \in AllReaches |->
     CASE r = "10" -> "1.5"
       [] r = "20" -> "5.5"
       [] r = "30" -> "3.5"
       [] r = "77444000061" -> "6.1"
       [] r = "77444000073" -> "7.3"
       [] OTHER -> "7.1"]

\* --------------------------------------------- content of a result file
\* a field of shape () of the file of reach r
SrcScalar(r, k) == IF k = "masked" THEN Masked ELSE KnownValue[r]

\* a field of shape (nt,) of the file of reach r
SrcSeries(r, k) ==
  [t \in 1..NT |-> IF k = "masked" /\ t = NT THEN Masked ELSE KnownValue[r]]

\* the topology rows of the nodes the file of reach r has results for: the
\* file of RID_TRAILING lacks the last two nodes of the topology, the file
\* of RID_LEADING lacks the first one
SrcNodeRows(T, r) ==
  LET ix == Where(T.node_reach_ids, r) IN
  IF r = RID_TRAILING THEN SubSeq(ix, 1, Len(ix) - 2)
  ELSE IF r = RID_LEADING THEN SubSeq(ix, 2, Len(ix))
  ELSE ix

\* a field of shape (nx,): the result of a node is the token of its node id
SrcNodes(T, r, k) ==
  LET rows == SrcNodeRows(T, r) IN
  [j \in 1..Len(rows) |->
     IF k = "masked" /\ j = 1 THEN Masked ELSE T.node_ids[rows[j]]]

\* the algorithm name characters of a validation file
SrcAlgo == "h"

\* masked_array.filled(v)
filled(x, v) == IF x = Masked THEN v ELSE x

filled_seq(xs, v) == [j \in DOMAIN xs |-> filled(xs[j], v)]

\* np.nan_to_num(x, nan=v)
nan_to_num(x, v) == IF x = NaN THEN v ELSE x

\* ------------------------------------------------ per-module field layout
HasNt(m) == m \in {"hivdi", "metroman", "sad", "sic4dvar", "geobam", "moi"}

HasNx(m) == m \in {"sic4dvar", "geobam", "prediagnostics", "swot"}

\* readers that fetch attributes (or dimensions) of files[0] before the
\* len(files) != 0 test
AttrsFirst == {"sad", "sic4dvar", "moi", "validation"}

\* readers whose per-reach extraction is wrapped in try/except
TryExcept == {"consensus"}

\* the value the reader converts a masked source entry to
MaskFill(m) ==
  CASE m = "prediagnostics" -> FILL.i4
    [] m \in {"swot", "consensus"} -> FILL.f8
    [] OTHER -> NaN

\* the value create_data_dict pre-fills the rows with
InitFill(m) ==
  CASE m = "prediagnostics" -> FILL.i4
    [] m \in {"swot", "consensus"} -> FILL.f8
    [] OTHER -> NaN

create_data_dict(m, T) ==
  LET NR == Len(T.reach_ids)
      NN == Len(T.node_ids) IN
  [nr      |-> [i \in 1..NR |-> InitFill(m)],
   nt      |-> IF HasNt(m) THEN [i \in 1..NR |-> [t \in 1..NT |-> NaN]] ELSE << >>,
   nx      |-> IF HasNx(m) THEN [j \in 1..NN |-> InitFill(m)] ELSE << >>,
   node_id |-> IF m = "sic4dvar" THEN [j \in 1..NN |-> "0"] ELSE << >>,
   s1      |-> IF m = "validation" THEN [i \in 1..NR |-> Empty] ELSE << >>,
   attrs   |-> "None"]

\* arr[rows] = vals of numpy: equal lengths, or one value broadcast
RECURSIVE PutAt(_, _, _, _)
PutAt(arr, rows, vals, p) ==
  IF p > Len(rows) THEN arr
  ELSE PutAt([arr EXCEPT ![rows[p]] = IF Len(vals) = 1 THEN vals[1] ELSE vals[p]],
             rows, vals, p + 1)

AssignAt(arr, rows, vals) ==
  IF Len(vals) = Len(rows) \/ Len(vals) = 1
  THEN [ok |-> TRUE, arr |-> PutAt(arr, rows, vals, 1)]
  ELSE [ok |-> FALSE, arr |-> arr]

\* GeoBAM.__insert_nx
GeoBAM_insert_nx(T, rid, src, arr) ==
  LET indexes == Where(T.node_reach_ids, rid) IN
  IF rid = RID_TRAILING THEN AssignAt(arr, indexes, src \o <<NaN, NaN>>)
  ELSE IF rid = RID_LEADING THEN AssignAt(arr, indexes, <<NaN>> \o src)
  ELSE AssignAt(arr, indexes, src)

\* Sic4dvar.__insert_nx
Sic4dvar_insert_nx(T, rid, src, arr) ==
  LET indexes == Where(T.node_reach_ids, rid)
      n == Len(indexes) IN
  IF rid = RID_TRAILING THEN
    LET a == AssignAt(arr, SubSeq(indexes, 1, n - 2), src) IN
    IF ~a.ok \/ n < 2 THEN [ok |-> FALSE, arr |-> arr]
    ELSE [ok |-> TRUE,
          arr |-> [a.arr EXCEPT ![indexes[n - 1]] = NaN, ![indexes[n]] = NaN]]
  ELSE IF rid = RID_LEADING THEN
    LET a == AssignAt(arr, SubSeq(indexes, 2, n), src) IN
    IF ~a.ok \/ n < 1 THEN [ok |-> FALSE, arr |-> arr]
    ELSE [ok |-> TRUE, arr |-> [a.arr EXCEPT ![indexes[1]] = NaN]]
  ELSE AssignAt(arr, indexes, src)

\* Prediagnostics._insert_nx: column j of the file goes to row indexes[j];
\* a column the file does not have raises IndexError
RECURSIVE Prediagnostics_insert_loop(_, _, _, _)
Prediagnostics_insert_loop(indexes, src, arr, p) ==
  IF p > Len(indexes) THEN [ok |-> TRUE, arr |-> arr]
  ELSE IF p > Len(src) THEN [ok |-> FALSE, arr |-> arr]
  ELSE Prediagnostics_insert_loop(indexes, src,
                                  [arr EXCEPT ![indexes[p]] = src[p]], p + 1)

Prediagnostics_insert_nx(T, rid, src, arr) ==
  Prediagnostics_insert_loop(Where(T.node_reach_ids, rid), src, arr, 1)

\* Swot._insert_nx: row j of the file goes to row indexes[j]; the bare
\* except returns at the first row the file does not have
RECURSIVE Swot_insert_loop(_, _, _, _)
Swot_insert_loop(indexes, src, arr, p) ==
  IF p > Len(indexes) \/ p > Len(src) THEN [ok |-> TRUE, arr |-> arr]
  ELSE Swot_insert_loop(indexes, src, [arr EXCEPT ![indexes[p]] = src[p]], p + 1)

Swot_insert_nx(T, rid, src, arr) ==
  Swot_insert_loop(Where(T.node_reach_ids, rid), src, arr, 1)

insert_nx(m, T, rid, src, arr) ==
  CASE m = "geobam" -> GeoBAM_insert_nx(T, rid, src, arr)
    [] m = "sic4dvar" -> Sic4dvar_insert_nx(T, rid, src, arr)
    [] m = "prediagnostics" -> Prediagnostics_insert_nx(T, rid, src, arr)
    [] OTHER -> Swot_insert_nx(T, rid, src, arr)

\* mn_index taken as the first row of the set file whatever s_rid is
mn_index_first(set_rids, s_rid) == 1

\* Metroman.__insert_nr / __insert_nt: the row of the set file whose
\* reach_id equals s_rid
mn_index(set_rids, s_rid) == Where(set_rids, s_rid)[1]

\* the reach whose values the reader copies for topology reach s_rid
SourceReach(m, set_rids, s_rid) ==
  IF m = "metroman" THEN set_rids[mn_index(set_rids, s_rid)] ELSE s_rid

\* the per-node entries the reader takes from the file: Sic4dvar copies the
\* variable-length entries as they are, the others call filled()
NodeSrc(m, T, r, k) ==
  IF m = "sic4dvar" THEN SrcNodes(T, r, "good")
  ELSE filled_seq(SrcNodes(T, r, k), MaskFill(m))

\* the has_validation attribute of a validation file
SrcHasValidation == "1"

\* the body of the "if s_rid in rids" branch of get_module_data, for a file
\* that opens and has every field
Extract(m, T, d, index, s_rid, k, set_rids) ==
  LET src == SourceReach(m, set_rids, s_rid)
      row == index + 1
      d1  == [d EXCEPT !.nr[row] =
                IF m = "validation" THEN SrcHasValidation
                ELSE filled(SrcScalar(src, k), MaskFill(m))]
      d2  == IF HasNt(m)
             THEN [d1 EXCEPT !.nt[row] = filled_seq(SrcSeries(src, k), NaN)]
             ELSE d1
      d3  == IF m = "validation" THEN [d2 EXCEPT !.s1[row] = SrcAlgo] ELSE d2
      nx  == IF HasNx(m)
             THEN insert_nx(m, T, s_rid, NodeSrc(m, T, s_rid, k), d3.nx)
             ELSE [ok |-> TRUE, arr |-> d3.nx]
      d4  == [d3 EXCEPT !.nx = nx.arr]
      d5  == IF m = "sic4dvar"
             THEN LET indexes == Where(T.node_reach_ids, s_rid) IN
                  [d4 EXCEPT !.node_id =
                     [j \in DOMAIN d4.node_id |->
                        IF j \in Range(indexes) THEN T.node_ids[j] ELSE d4.node_id[j]]]
             ELSE d4 IN
  [ok |-> nx.ok, dict |-> IF nx.ok THEN d5 ELSE d4]

\* ------------------------------------------------------- the SoS archive
\* createGroup starting the file over with the one group
createGroup_fresh(groups, g) == [x \in {g} |-> << >>]

\* Group.createGroup: the existing group when there is one
createGroup(groups, g) ==
  IF g \in DOMAIN groups THEN groups
  ELSE [x \in DOMAIN groups \cup {g} |-> IF x = g THEN << >> ELSE groups[x]]

putVar(groups, g, name, data) ==
  [groups EXCEPT ![g] =
     [n \in DOMAIN groups[g] \cup {name} |-> IF n = name THEN data ELSE groups[g][n]]]

\* the reaches and nodes groups of write_reaches and write_nodes
TopologyGroups(T) ==
  [g \in {"reaches", "nodes"} |->
     IF g = "reaches" THEN [n \in {"reach_id"} |-> T.reach_ids]
     ELSE [n \in {"node_id", "reach_id"} |->
             IF n = "node_id" THEN T.node_ids ELSE T.node_reach_ids]]

NoTopo == [reach_ids |-> << >>, node_ids |-> << >>, node_reach_ids |-> << >>]

NoFile ==
  [exists |-> FALSE, open |-> FALSE, version |-> << >>, dims |-> {},
   groups |-> << >>, atts |-> << >>, vatts |-> << >>]

\* the archive the unit tests copy into place before they run a module
Fixture(T) ==
  [exists |-> TRUE, open |-> FALSE, version |-> <<0, 0, 0, 1>>,
   dims |-> {"num_reaches", "num_nodes", "time_steps"},
   groups |-> TopologyGroups(T), atts |-> << >>, vatts |-> << >>]

\* ------------------------------------------------------------ attributes
\* Variable.__dict__ of variable v of a result file or of the priors file
SrcAttrs(v) == [units |-> <<"file", v>>, comment |-> <<"file", v>>]

\* the variable of the result file whose __dict__ get_nc_attrs stores under
\* name
AttrsOf(m, name) ==
  IF m = "prediagnostics" /\ name = "reach/slope_outliers"
  THEN "reach/slope2_outliers"
  ELSE name

\* data_dict["attrs"][name] after get_module_data
get_nc_attrs(m, name, d) ==
  IF d.attrs = "None" THEN << >> ELSE SrcAttrs(AttrsOf(m, name))

\* the variables the variable metadata document has an entry for
MetaVars ==
  {<<"priors", "mean_q">>, <<"consensus", "consensus_q">>,
   <<"prediagnostics", "reach/ice_clim_f">>,
   <<"prediagnostics", "reach/slope_outliers">>,
   <<"prediagnostics", "node/ice_clim_f">>}

JsonAttrs(key) == [units |-> <<"json", key[2]>>, long_name |-> <<"json", key[2]>>]

\* the global attribute documents create_new_version is tried on
GlobalAtts ==
  {[title |-> <<"json", "title">>],
   [title |-> <<"json", "title">>, run_type |-> <<"json", "run_type">>]}

Metadata == {[global |-> g, vars |-> [k \in MetaVars |-> JsonAttrs(k)]] : g \in GlobalAtts}

\* the global attributes of the priors file
PriorAtts == [Name |-> <<"prior", "Name">>, run_type |-> <<"prior", "run_type">>]

\* setattr / setncatts of every entry of new on top of atts
setncatts(atts, new) ==
  [n \in DOMAIN atts \cup DOMAIN new |-> IF n \in DOMAIN new THEN new[n] ELSE atts[n]]

\* set_variable_atts is not in the sources at hand: every entry of the
\* metadata document is set on the variable
set_variable_atts(atts, entry) == setncatts(atts, entry)

\* the writers that pass the variable metadata document on
UsesMetadata == {"consensus", "prediagnostics"}

\* the attributes a writer sets on the variable of item it
ItemAttrs(m, it, d, metadata) ==
  LET own == IF it.type = "raw" THEN << >> ELSE get_nc_attrs(m, it.name, d) IN
  IF m \in UsesMetadata
  THEN set_variable_atts(own, metadata.vars[<<m, it.name>>])
  ELSE own

\* the attributes of the variables a write created, added to vatts
NewAttrs(vatts, attrs) ==
  [k \in DOMAIN vatts \cup DOMAIN attrs |->
     IF k \in DOMAIN attrs THEN attrs[k] ELSE vatts[k]]

\* the variables of items that are in groups after and were not before
Created(items, before, after) ==
  {<<it.grp, it.name>> : it \in
     {x \in Range(items) :
        /\ x.kind = "var"
        /\ x.grp \in DOMAIN after
        /\ x.name \in DOMAIN after[x.grp]
        /\ ~(x.grp \in DOMAIN before /\ x.name \in DOMAIN before[x.grp])}}

\* what append_module_data does, in order
G(g) == [kind |-> "group", grp |-> g, name |-> "", slot |-> "", type |-> "", dims |-> {}]

D(g, n) == [kind |-> "dim", grp |-> g, name |-> n, slot |-> "", type |-> "", dims |-> {}]

V(g, n, slot, type, dims) ==
  [kind |-> "var", grp |-> g, name |-> n, slot |-> slot, type |-> type, dims |-> dims]

WriteItems(m) ==
  CASE m = "hivdi" ->
         <<G("hivdi"),
           V("hivdi", "Q", "nt", "f8", {"num_reaches", "time_steps"}),
           V("hivdi", "A0", "nr", "f8", {"num_reaches"})>>
    [] m = "metroman" ->
         <<G("metroman"),
           V("metroman", "allq", "nt", "f8", {"num_reaches", "time_steps"}),
           V("metroman", "A0hat", "nr", "f8", {"num_reaches"})>>
    [] m = "sad" ->
         <<G("sad"),
           V("sad", "A0", "nr", "f8", {"num_reaches"}),
           V("sad", "Qa", "nt", "f8", {"num_reaches", "time_steps"})>>
    [] m = "moi" ->
         <<G("moi"),
           V("moi", "geobam/q", "nt", "f8", {"num_reaches", "time_steps"}),
           V("moi", "geobam/a0", "nr", "f8", {"num_reaches"})>>
    [] m = "geobam" ->
         <<G("geobam"),
           V("geobam", "logQ/mean_chain1", "nt", "f8", {"num_reaches", "time_steps"}),
           V("geobam", "logWc/mean_chain1", "nr", "f8", {"num_reaches"}),
           V("geobam", "A0/mean_chain1", "nx", "f8", {"num_nodes"})>>
    [] m = "sic4dvar" ->
         <<G("sic4dvar"),
           V("sic4dvar", "A0", "nr", "f8", {"num_reaches"}),
           V("sic4dvar", "Qalgo5", "nt", "f8", {"num_reaches", "time_steps"}),
           D("sic4dvar", "sic4dvar/num_sic4dvar_nodes"),
           V("sic4dvar", "sic4dvar_node_id", "sv_node_id", "raw", {"sic4dvar/num_sic4dvar_nodes"}),
           V("sic4dvar", "sic4dvar_reach_id", "sv_reach_id", "raw", {"sic4dvar/num_sic4dvar_nodes"}),
           V("sic4dvar", "half_width", "sv_nx", "raw", {"sic4dvar/num_sic4dvar_nodes"})>>
    [] m = "validation" ->
         <<G("validation"),
           D("validation", "validation/num_algos"),
           D("validation", "validation/nchar"),
           V("validation", "algo_names", "s1", "S1",
             {"num_reaches", "validation/num_algos", "validation/nchar"}),
           V("validation", "has_validation", "nr", "i4", {"num_reaches"})>>
    [] m = "prediagnostics" ->
         <<G("prediagnostics"),
           V("prediagnostics", "reach/ice_clim_f", "nr", "vlen", {"num_reaches"}),
           V("prediagnostics", "reach/slope_outliers", "nr", "vlen", {"num_reaches"}),
           V("prediagnostics", "node/ice_clim_f", "nx", "vlen", {"num_nodes"})>>
    [] m = "swot" ->
         <<V("reaches", "time", "nr", "vlen", {"num_reaches"}),
           V("nodes", "time", "nx", "vlen", {"num_nodes"})>>
    [] OTHER ->
         <<G("consensus"),
           V("consensus", "consensus_q", "nr", "vlen", {"num_reaches"})>>

\* write_var_nt is not in the sources at hand: a variable-length payload
\* is stored the way the reader left it
write_var_nt(v) == v

\* write_var without its nan_to_num branch
StoredValue_raw(type, v) == v

\* the value write_var stores for v in a variable of the given type
StoredValue(type, v) ==
  IF type \in {"f8", "i4"} THEN nan_to_num(v, FILL[type])
  ELSE IF type = "vlen" THEN write_var_nt(v)
  ELSE v

\* np.where taking every row of node_id, the zero ones too
NonZeroFrom_all(arr, k) == [i \in 1..Len(arr) |-> i]

\* np.where(data_dict["node_id"] != 0)
RECURSIVE NonZeroFrom(_, _)
NonZeroFrom(arr, k) ==
  IF k > Len(arr) THEN << >>
  ELSE (IF arr[k] # "0" THEN <<k>> ELSE << >>) \o NonZeroFrom(arr, k + 1)

\* the array the writer assigns to the variable of item it
VarData(it, d, T) ==
  LET rows == NonZeroFrom(d.node_id, 1) IN
  CASE it.slot = "nr" -> [i \in DOMAIN d.nr |-> StoredValue(it.type, d.nr[i])]
    [] it.slot = "nt" ->
         [i \in DOMAIN d.nt |->
            [t \in DOMAIN d.nt[i] |-> StoredValue(it.type, d.nt[i][t])]]
    [] it.slot = "nx" -> [j \in DOMAIN d.nx |-> StoredValue(it.type, d.nx[j])]
    [] it.slot = "s1" -> d.s1
    [] it.slot = "sv_node_id" -> [k \in DOMAIN rows |-> d.node_id[rows[k]]]
    [] it.slot = "sv_reach_id" -> [k \in DOMAIN rows |-> T.node_reach_ids[rows[k]]]
    [] OTHER -> [k \in DOMAIN rows |-> d.nx[rows[k]]]

\* createGroup / createDimension / write_var one item after the other; the
\* first call that raises ends the writer
RECURSIVE WriteFrom(_, _, _, _, _)
WriteFrom(items, p, st, d, T) ==
  IF p > Len(items) \/ ~st.ok THEN st
  ELSE
    LET it == items[p] IN
    CASE it.kind = "group" ->
           WriteFrom(items, p + 1,
                     [st EXCEPT !.groups = createGroup(st.groups, it.grp)], d, T)
      [] it.kind = "dim" ->
           IF it.name \in st.dims THEN [st EXCEPT !.ok = FALSE]
           ELSE WriteFrom(items, p + 1,
                          [st EXCEPT !.dims = st.dims \cup {it.name}], d, T)
      [] OTHER ->
           IF \/ it.grp \notin DOMAIN st.groups
              \/ it.name \in DOMAIN st.groups[it.grp]
              \/ ~(it.dims \subseteq st.dims)
           THEN [st EXCEPT !.ok = FALSE]
           ELSE WriteFrom(items, p + 1,
                          [st EXCEPT !.groups =
                             putVar(st.groups, it.grp, it.name, VarData(it, d, T))],
                          d, T)

\* Variable.__getitem__ of netCDF4: an entry equal to the fill value of the
\* variable comes back masked
ReadBack(type, v) == IF type \in {"f8", "i4", "S1"} /\ v = FILL[type] THEN Masked ELSE v

\* ------------------------------------------------------ version strings
\* a version string is the sequence of its decimal digits
RECURSIVE int(_)
int(digits) ==
  IF digits = << >> THEN 0
  ELSE 10 * int(SubSeq(digits, 1, Len(digits) - 1)) + digits[Len(digits)]

RECURSIVE str(_)
str(n) == IF n < 10 THEN <<n>> ELSE str(n \div 10) \o <<n % 10>>

\* ['0'] * (VERS_LENGTH - len(vers)) joined in front of vers
padded(vers) == [i \in 1..(VERS_LENGTH - Len(vers)) |-> 0] \o vers

\* ----------------------------------------------------------------- state
VARIABLES
  env,       \* the inputs of the run: result files, prior SoS, configuration
  pc,        \* the statement of main() (or of a unit test) about to run
  topo,      \* sos_rids, sos_nids, sos_nrids held by Append and the modules
  sos,       \* the results file at sos_file / sos_new
  modules,   \* Append.modules
  mi,        \* the number of modules append_data has started
  cur,       \* the module being appended and the position of its reader
  upload,    \* what Upload.upload_data did
  err        \* the exception that ended the run or the module, or "None"

vars == <<env, pc, topo, sos, modules, mi, cur, upload, err>>

NoModule ==
  [m |-> "None", phase |-> "none", pos |-> 0, index |-> 0, rids |-> {},
   dict |-> create_data_dict("None", NoTopo), open |-> {}, log |-> << >>,
   run |-> 1, first |-> << >>]

\* a module object right after its construction
NewModule(m) == [NoModule EXCEPT !.m = m, !.phase = "new"]

NoUpload == [started |-> FALSE, vers |-> << >>, put |-> << >>]

\* ------------------------------------------------------------- the inputs
NoFiles == [m \in Modules |-> [r \in AllReaches |-> "absent"]]

\* every combination of file states for the reaches of T
AnyFiles(T) ==
  {[r \in AllReaches |-> IF r \in Range(T.reach_ids) THEN f[r] ELSE "absent"] :
     f \in [Range(T.reach_ids) -> FileKinds]}

\* the directories the orchestrated runs are tried on
SomeFiles(T) ==
  {[r \in AllReaches |-> IF r \in Range(T.reach_ids) THEN f[r] ELSE "absent"] :
     f \in {[r \in Range(T.reach_ids) |-> "absent"],
            [r \in Range(T.reach_ids) |-> "good"],
            [r \in Range(T.reach_ids) |-> IF r = T.reach_ids[2] THEN "good" ELSE "absent"],
            [r \in Range(T.reach_ids) |-> IF r = T.reach_ids[2] THEN "corrupt" ELSE "good"]}}

\* the dash-joined set file of MetroMan holds the first two reaches of the
\* topology (in the order of its reach_id variable) when mn_pair holds
SetRids(T, pair, s_rid) ==
  IF pair /\ s_rid \in {T.reach_ids[1], T.reach_ids[2]}
  THEN <<T.reach_ids[2], T.reach_ids[1]>>
  ELSE <<s_rid>>

PriorVersions == {<<0, 0, 0, 1>>, <<0, 0, 0, 9>>}

\* the groups of the prior SoS: reaches and nodes, and the model group
PriorGroups(T, withModel) ==
  LET tg == TopologyGroups(T) IN
  IF withModel
  THEN [g \in {"reaches", "nodes", "model"} |->
          IF g = "model" THEN [n \in {"mean_q"} |-> [i \in DOMAIN T.reach_ids |-> "2.5"]]
          ELSE tg[g]]
  ELSE tg

Priors ==
  {[exists |-> FALSE, version |-> << >>, topo |-> NoTopo, groups |-> << >>,
    atts |-> << >>]}
  \cup
  {[exists |-> TRUE, version |-> v, topo |-> T, groups |-> PriorGroups(T, wm),
    atts |-> PriorAtts] :
     v \in PriorVersions, T \in Topologies, wm \in BOOLEAN}

NoPrior ==
  [exists |-> FALSE, version |-> << >>, topo |-> NoTopo, groups |-> << >>,
   atts |-> << >>]

ModuleLists ==
  {<< >>, <<"validation">>, <<"hivdi">>, <<"swot", "validation">>,
   <<"validation", "swot">>, <<"validation", "prediagnostics">>,
   <<"geobam", "consensus", "sad">>, <<"priors", "validation">>,
   <<"consensus">>}

InitTest ==
  \E T \in Topologies, m \in Modules, pair \in BOOLEAN :
    \E f \in AnyFiles(T) :
      /\ pair => /\ m = "metroman"
                 /\ Present(f[T.reach_ids[1]])
                 /\ f[T.reach_ids[1]] = f[T.reach_ids[2]]
      /\ env = [entry |-> "test", files |-> [NoFiles EXCEPT ![m] = f],
                mn_pair |-> pair, prior |-> NoPrior, creatable |-> TRUE,
                sos_fs |-> "None", run_type |-> "constrained", modules_list |-> <<m>>,
                metadata |-> CHOOSE md \in Metadata : DOMAIN md.global = {"title"}]
      /\ pc = "test"
      /\ topo = T
      /\ sos = Fixture(T)
      /\ modules = <<m>>
      /\ mi = 1
      /\ cur = NewModule(m)
      /\ upload = NoUpload
      /\ err = "None"

InitMain ==
  \E prior \in Priors, ml \in ModuleLists, rt \in {"constrained", "unconstrained"},
     c \in BOOLEAN, md \in Metadata :
    \E fs \in [Range(ml) \cap Modules ->
                 SomeFiles(IF prior.exists THEN prior.topo ELSE Topo1)] :
      /\ env = [entry |-> "main",
                files |-> [m \in Modules |-> IF m \in Range(ml) THEN fs[m] ELSE NoFiles[m]],
                mn_pair |-> FALSE, prior |-> prior, creatable |-> c,
                sos_fs |-> "None", run_type |-> rt, modules_list |-> ml,
                metadata |-> md]
      /\ pc = "Append"
      /\ topo = NoTopo
      /\ sos = NoFile
      /\ modules = << >>
      /\ mi = 0
      /\ cur = NoModule
      /\ upload = NoUpload
      /\ err = "None"

\* ------------------------------------------------------------ the modules
\* an exception leaves the method; nothing on the way up catches it
Raise(c, e) ==
  /\ cur' = [c EXCEPT !.phase = "raised"]
  /\ err' = e
  /\ pc' = "aborted"

\* index += 1 moved into the "if s_rid in rids" branch
AdvanceIndex_present(index, present) == IF present THEN index + 1 ELSE index

\* index += 1 at the end of the body of "for s_rid in self.sos_rids"
AdvanceIndex(index, present) == index + 1

\* get_module_data up to the loop over the topology: the glob of the result
\* directory, create_data_dict, get_nc_attrs of the first file of the glob
get_module_data_begin ==
  /\ pc \in {"test", "append_data"}
  /\ cur.m \in Modules
  /\ cur.phase = "new"
  /\ LET m     == cur.m
         files == env.files[m]
         rids  == {r \in Range(topo.reach_ids) : Present(files[r])}
         d     == create_data_dict(m, topo)
         c     == [cur EXCEPT !.dict = d, !.rids = rids] IN
     IF rids = {} THEN
       IF m \in AttrsFirst THEN Raise(c, "IndexError")
       ELSE IF m = "swot" THEN Raise(c, "ValueError")
       ELSE /\ cur' = [c EXCEPT !.phase = "read"]
            /\ UNCHANGED <<pc, err>>
     ELSE
       \E r0 \in rids :
         IF files[r0] = "corrupt" THEN Raise(c, "OSError")
         ELSE IF files[r0] = "nofield"
         THEN Raise([c EXCEPT !.open = @ \cup {r0}], "IndexError")
         ELSE /\ cur' = [c EXCEPT !.phase = "loop", !.pos = 1, !.index = 0,
                                  !.dict.attrs = r0]
              /\ UNCHANGED <<pc, err>>
  /\ UNCHANGED <<env, topo, sos, modules, mi, upload>>

\* one iteration of "for s_rid in self.sos_rids" of get_module_data
get_module_data_reach ==
  /\ pc \in {"test", "append_data"}
  /\ cur.phase = "loop"
  /\ LET m     == cur.m
         s_rid == topo.reach_ids[cur.pos]
         k     == env.files[m][s_rid]
         here  == s_rid \in cur.rids
         next(c) ==
           [c EXCEPT !.pos = @ + 1,
                     !.index = AdvanceIndex(@, here),
                     !.phase = IF cur.pos = Len(topo.reach_ids) THEN "read" ELSE "loop"]
         x == Extract(m, topo, cur.dict, cur.index, s_rid, k,
                      SetRids(topo, env.mn_pair, s_rid)) IN
     IF ~here THEN
       /\ cur' = next(cur)
       /\ UNCHANGED <<pc, err>>
     ELSE IF k = "corrupt" THEN
       IF m \in TryExcept
       THEN /\ cur' = next([cur EXCEPT !.log = Append(@, s_rid)])
            /\ UNCHANGED <<pc, err>>
       ELSE Raise(cur, "OSError")
     ELSE IF k = "nofield" THEN
       IF m \in TryExcept
       THEN /\ cur' = next([cur EXCEPT !.log = Append(@, s_rid),
                                       !.open = @ \cup {s_rid}])
            /\ UNCHANGED <<pc, err>>
       ELSE Raise([cur EXCEPT !.open = @ \cup {s_rid}], "IndexError")
     ELSE IF x.ok THEN
       /\ cur' = next([cur EXCEPT !.dict = x.dict])
       /\ UNCHANGED <<pc, err>>
     ELSE Raise([cur EXCEPT !.dict = x.dict, !.open = @ \cup {s_rid}], "IndexError")
  /\ UNCHANGED <<env, topo, sos, modules, mi, upload>>

\* append_module_data: Dataset(sos_new, 'a'), the group, the variables,
\* close(); a call that raises leaves the file open with what was written
append_module_data ==
  /\ pc \in {"test", "append_data"}
  /\ cur.m \in Modules
  /\ cur.phase = "read"
  /\ LET st == WriteFrom(WriteItems(cur.m), 1,
                         [groups |-> sos.groups, dims |-> sos.dims, ok |-> TRUE],
                         cur.dict, topo) IN
     /\ sos' = [sos EXCEPT !.groups = st.groups, !.dims = st.dims, !.open = ~st.ok,
                           !.vatts =
                             LET items == WriteItems(cur.m) IN
                             NewAttrs(@,
                               [k \in Created(items, sos.groups, st.groups) |->
                                  ItemAttrs(cur.m,
                                            CHOOSE it \in Range(items) :
                                              it.kind = "var" /\ <<it.grp, it.name>> = k,
                                            cur.dict, env.metadata)])]
     /\ IF st.ok
        THEN /\ cur' = [cur EXCEPT !.phase = "written"]
             /\ pc' = IF pc = "test" THEN "done" ELSE pc
             /\ UNCHANGED err
        ELSE Raise(cur, "RuntimeError")
  /\ UNCHANGED <<env, topo, modules, mi, upload>>

\* Priors.get_module_data: open_sos, then create_data_dict reads the model
\* group of the priors file; the file stays open
Priors_get_module_data ==
  /\ pc = "append_data"
  /\ cur.m = "priors"
  /\ cur.phase = "new"
  /\ IF "model" \in DOMAIN env.prior.groups
     THEN /\ cur' = [cur EXCEPT !.phase = "read", !.open = {"priors_sos"}]
          /\ UNCHANGED <<pc, err>>
     ELSE Raise([cur EXCEPT !.open = {"priors_sos"}], "IndexError")
  /\ UNCHANGED <<env, topo, sos, modules, mi, upload>>

\* the variables of the model group, written into group "priors"
RECURSIVE CopyModel(_, _, _)
CopyModel(names, model, st) ==
  IF names = {} \/ ~st.ok THEN st
  ELSE LET n == CHOOSE x \in names : TRUE IN
       IF n \in DOMAIN st.groups["priors"] THEN [st EXCEPT !.ok = FALSE]
       ELSE CopyModel(names \ {n}, model,
                      [st EXCEPT !.groups = putVar(st.groups, "priors", n, model[n])])

\* Priors.append_module_data: the group, the variables, close_sos(); the
\* results file opened in 'a' mode has no close() call and is released
\* when the method returns and drops its only reference, while a raise
\* keeps it open
Priors_append_module_data ==
  /\ pc = "append_data"
  /\ cur.m = "priors"
  /\ cur.phase = "read"
  /\ LET model == env.prior.groups["model"]
         st == CopyModel(DOMAIN model, model,
                         [groups |-> createGroup(sos.groups, "priors"),
                          dims |-> sos.dims, ok |-> TRUE]) IN
     /\ sos' = [sos EXCEPT !.groups = st.groups, !.open = ~st.ok,
                           !.vatts =
                             LET created ==
                                   {<<"priors", n>> : n \in
                                      {x \in DOMAIN st.groups["priors"] :
                                         ~("priors" \in DOMAIN sos.groups
                                           /\ x \in DOMAIN sos.groups["priors"])}} IN
                             NewAttrs(@,
                               [k \in created |->
                                  set_variable_atts(SrcAttrs(k[2]), env.metadata.vars[k])])]
     /\ IF st.ok
        THEN /\ cur' = [cur EXCEPT !.phase = "written", !.open = {}]
             /\ UNCHANGED <<pc, err>>
        ELSE Raise(cur, "RuntimeError")
  /\ UNCHANGED <<env, topo, modules, mi, upload>>

\* append_module called a second time on the same module object, the same
\* result directory and the same results file
append_module_again ==
  /\ pc = "done"
  /\ cur.run = 1
  /\ cur' = [NewModule(cur.m) EXCEPT !.run = 2, !.first = sos.groups]
  /\ pc' = "test"
  /\ UNCHANGED <<env, topo, sos, modules, mi, upload, err>>

\* ------------------------------------------------------- the orchestrator
\* main going from Append(...) to create_modules without create_new_version
Append_init_skip ==
  /\ pc = "Append"
  /\ IF env.prior.exists
     THEN /\ topo' = env.prior.topo
          /\ pc' = "create_modules"
          /\ UNCHANGED err
     ELSE /\ err' = "FileNotFoundError"
          /\ pc' = "aborted"
          /\ UNCHANGED topo
  /\ UNCHANGED <<env, sos, modules, mi, cur, upload>>

\* Append.__init__: get_continent_sos_data opens the priors file
Append_init ==
  /\ pc = "Append"
  /\ IF env.prior.exists
     THEN /\ topo' = env.prior.topo
          /\ pc' = "create_new_version"
          /\ UNCHANGED err
     ELSE /\ err' = "FileNotFoundError"
          /\ pc' = "aborted"
          /\ UNCHANGED topo
  /\ UNCHANGED <<env, sos, modules, mi, cur, upload>>

\* the version attribute create_new_version gives the results file
NewVersion(prior_version) == prior_version

\* the groups write_reaches and write_nodes copy from the priors file
CopiedGroups(prior_groups) ==
  [g \in {"reaches", "nodes"} |->
     IF g = "reaches" THEN [n \in {"reach_id"} |-> prior_groups[g][n]]
     ELSE [n \in {"node_id", "reach_id"} |-> prior_groups[g][n]]]

\* setncatts of write_reaches and write_nodes
CopiedAttrs ==
  [k \in {<<"reaches", "reach_id">>, <<"nodes", "node_id">>, <<"nodes", "reach_id">>}
     |-> SrcAttrs(k[2])]

\* the global attributes create_new_version gives the results file (the
\* version attribute is the field of its own): the entries of the global
\* attribute document, then Name, production_date and run_type
GlobalAttributes(global_atts, prior_atts) ==
  setncatts(global_atts,
            [Name |-> prior_atts.Name,
             production_date |-> <<"clock", "now">>,
             run_type |-> prior_atts.run_type])

\* create_new_version going on to create_modules after Dataset(..., 'w')
\* failed
create_new_version_continue ==
  /\ pc = "create_new_version"
  /\ IF env.creatable
     THEN /\ sos' = [exists |-> TRUE, open |-> FALSE,
                     version |-> NewVersion(env.prior.version),
                     dims |-> {"num_reaches", "num_nodes"},
                     groups |-> CopiedGroups(env.prior.groups),
                     atts |-> GlobalAttributes(env.metadata.global, env.prior.atts),
                     vatts |-> CopiedAttrs]
          /\ UNCHANGED err
     ELSE /\ err' = "PermissionError"
          /\ UNCHANGED sos
  /\ pc' = "create_modules"
  /\ UNCHANGED <<env, topo, modules, mi, cur, upload>>

create_new_version ==
  /\ pc = "create_new_version"
  /\ IF env.creatable
     THEN /\ sos' = [exists |-> TRUE, open |-> FALSE,
                     version |-> NewVersion(env.prior.version),
                     dims |-> {"num_reaches", "num_nodes"},
                     groups |-> CopiedGroups(env.prior.groups),
                     atts |-> GlobalAttributes(env.metadata.global, env.prior.atts),
                     vatts |-> CopiedAttrs]
          /\ pc' = "create_modules"
          /\ UNCHANGED err
     ELSE /\ err' = "PermissionError"
          /\ pc' = "aborted"
          /\ UNCHANGED sos
  /\ UNCHANGED <<env, topo, modules, mi, cur, upload>>

\* the branch of "priors" without its test of run_type
Branches_any(run_type) ==
  {"hivdi", "metroman", "moi", "prediagnostics", "priors", "sad", "sic4dvar",
   "swot", "validation"}

\* the names create_modules has a branch for
Branches(run_type) ==
  {"hivdi", "metroman", "moi", "prediagnostics", "sad", "sic4dvar", "swot",
   "validation"}
  \cup (IF run_type = "constrained" THEN {"priors"} ELSE {})

RECURSIVE Selected(_, _, _)
Selected(modules_list, run_type, p) ==
  IF p > Len(modules_list) THEN << >>
  ELSE (IF modules_list[p] \in Branches(run_type) THEN <<modules_list[p]>> ELSE << >>)
       \o Selected(modules_list, run_type, p + 1)

create_modules ==
  /\ pc = "create_modules"
  /\ modules' = Selected(env.modules_list, env.run_type, 1)
  /\ pc' = "append_data"
  /\ UNCHANGED <<env, topo, sos, mi, cur, upload, err>>

\* append_data: the next module of "for module in self.modules"
append_data_next ==
  /\ pc = "append_data"
  /\ cur.phase \in {"none", "written"}
  /\ mi < Len(modules)
  /\ mi' = mi + 1
  /\ cur' = NewModule(modules[mi + 1])
  /\ UNCHANGED <<env, pc, topo, sos, modules, upload, err>>

\* append_data returning before its loop has finished
append_data_return_early ==
  /\ pc = "append_data"
  /\ pc' = "upload"
  /\ UNCHANGED <<env, topo, sos, modules, mi, cur, upload, err>>

\* append_data returns to main
append_data_return ==
  /\ pc = "append_data"
  /\ cur.phase \in {"none", "written"}
  /\ mi = Len(modules)
  /\ pc' = "upload"
  /\ UNCHANGED <<env, topo, sos, modules, mi, cur, upload, err>>

\* Upload(None, append.sos_file).upload_data(...)
upload_data ==
  /\ pc = "upload"
  /\ LET vers == padded(str(int(sos.version) + 1)) IN
     IF env.sos_fs = "None"
     THEN /\ upload' = [started |-> TRUE, vers |-> vers, put |-> << >>]
          /\ err' = "AttributeError"
          /\ pc' = "aborted"
     ELSE /\ upload' = [started |-> TRUE, vers |-> vers,
                        put |-> <<<<env.run_type, vers>>>>]
          /\ pc' = "exit"
          /\ UNCHANGED err
  /\ UNCHANGED <<env, topo, sos, modules, mi, cur>>

\* ------------------------------------------- the copy-and-extend generation
\* a run copies the current SoS, raises its version and lets the modules
\* extend the copy; the next run starts from the file this one produced
MaxRuns == 2

\* the modules of src/src in the order of Append.append_data
Gen1Modules == <<"moi", "postdiagnostics", "offline">>

\* what the create path of a module of this generation does, in order
Gen1Items(m) ==
  CASE m = "moi" ->
         <<G("moi"),
           V("moi", "geobam/q", "nt", "f8", {"num_reaches", "time_steps"}),
           V("moi", "geobam/a0", "nr", "f8", {"num_reaches"})>>
    [] m = "postdiagnostics" ->
         <<G("postdiagnostics"),
           D("postdiagnostics", "postdiagnostics/num_algos"),
           D("postdiagnostics", "postdiagnostics/nchar"),
           V("postdiagnostics", "basin/realism_flags", "nr", "f8",
             {"num_reaches", "postdiagnostics/num_algos"})>>
    [] OTHER ->
         <<G("offline"),
           V("offline", "d_x_area", "nt", "f8", {"num_reaches", "time_steps"}),
           V("offline", "metro_q_c", "nt", "f8", {"num_reaches", "time_steps"})>>

\* the branch a module takes: Offline.append_off tests int(version) == 1,
\* Moi.append_moi and Postdiagnostics.append_pd have the create path only
Gen1Path(m, version) ==
  IF m = "offline"
  THEN (IF int(version) = 1 THEN "create" ELSE "insert")
  ELSE "create"

\* __insert_off_data: sos_ds["offline"], then grp[name][:] = data for one
\* variable after the other; a group or a variable that is not in the
\* file raises
RECURSIVE InsertFrom(_, _, _, _, _)
InsertFrom(items, p, st, d, T) ==
  IF p > Len(items) \/ ~st.ok THEN st
  ELSE
    LET it == items[p] IN
    CASE it.kind = "group" ->
           IF it.grp \in DOMAIN st.groups THEN InsertFrom(items, p + 1, st, d, T)
           ELSE [st EXCEPT !.ok = FALSE]
      [] it.kind = "dim" -> InsertFrom(items, p + 1, st, d, T)
      [] OTHER ->
           IF it.name \notin DOMAIN st.groups[it.grp] THEN [st EXCEPT !.ok = FALSE]
           ELSE InsertFrom(items, p + 1,
                           [st EXCEPT !.groups =
                              putVar(st.groups, it.grp, it.name, VarData(it, d, T))],
                           d, T)

\* the current SoS of the first run: the topology, no module group
Gen1Versions == {<<0, 0, 0, 0>>, <<0, 0, 0, 1>>}

InitGen1 ==
  \E T \in Topologies, v \in Gen1Versions :
    /\ env = [entry |-> "gen1", files |-> NoFiles, mn_pair |-> FALSE,
              prior |-> [exists |-> TRUE, version |-> v, topo |-> T,
                         groups |-> TopologyGroups(T), atts |-> PriorAtts],
              creatable |-> TRUE, sos_fs |-> "None", run_type |-> "constrained",
              modules_list |-> Gen1Modules,
              metadata |-> CHOOSE md \in Metadata : DOMAIN md.global = {"title"}]
    /\ pc = "gen1_Append"
    /\ topo = NoTopo
    /\ sos = NoFile
    /\ modules = Gen1Modules
    /\ mi = 0
    /\ cur = NoModule
    /\ upload = NoUpload
    /\ err = "None"

\* Append.__init__ of src/src: get_continent_sos_data
Gen1_Append_init ==
  /\ pc = "gen1_Append"
  /\ topo' = env.prior.topo
  /\ pc' = "gen1_create_new_version"
  /\ UNCHANGED <<env, sos, modules, mi, cur, upload, err>>

\* Append.create_new_version of src/src: copy of the current SoS, version
\* plus one padded to VERS_LENGTH, production_date
Gen1_create_new_version ==
  /\ pc = "gen1_create_new_version"
  /\ sos' = [exists |-> TRUE, open |-> FALSE,
             version |-> padded(str(int(env.prior.version) + 1)),
             dims |-> {"num_reaches", "num_nodes", "time_steps"}
                        \cup {it.name : it \in
                                {x \in UNION {Range(Gen1Items(m)) : m \in Range(Gen1Modules)} :
                                   x.kind = "dim" /\ x.grp \in DOMAIN env.prior.groups}},
             groups |-> env.prior.groups,
             atts |-> setncatts(env.prior.atts,
                                [production_date |-> <<"clock", "now">>]),
             vatts |-> << >>]
  /\ mi' = 0
  /\ pc' = "gen1_append_data"
  /\ UNCHANGED <<env, topo, modules, cur, upload, err>>

\* __get_moi_data / __get_off_data / __get_pd_data: the dictionary
\* __create_*_dict pre-fills, and for every reach of the topology that has
\* a file in the result directory (rids) the values of that file
Gen1Dict(T, rids) ==
  LET d == create_data_dict("moi", T) IN
  [d EXCEPT
     !.nr = [i \in DOMAIN d.nr |->
               IF T.reach_ids[i] \in rids
               THEN SrcScalar(T.reach_ids[i], "good") ELSE d.nr[i]],
     !.nt = [i \in DOMAIN d.nt |->
               IF T.reach_ids[i] \in rids
               THEN SrcSeries(T.reach_ids[i], "good") ELSE d.nt[i]]]

\* one module of Append.append_data of src/src: the reader on the result
\* directory of this run, then the create or the insert path
Gen1_append_module ==
  /\ pc = "gen1_append_data"
  /\ mi < Len(modules)
  /\ \E rids \in SUBSET Range(topo.reach_ids) :
     LET m    == modules[mi + 1]
         path == Gen1Path(m, sos.version)
         d    == Gen1Dict(topo, rids)
         st0  == [groups |-> sos.groups, dims |-> sos.dims, ok |-> TRUE]
         st   == IF path = "create"
                 THEN WriteFrom(Gen1Items(m), 1, st0, d, topo)
                 ELSE InsertFrom(Gen1Items(m), 1, st0, d, topo)
         c    == [NoModule EXCEPT !.m = m, !.run = cur.run, !.rids = rids,
                                  !.log = <<path>>] IN
     /\ sos' = [sos EXCEPT !.groups = st.groups, !.dims = st.dims, !.open = ~st.ok]
     /\ mi' = mi + 1
     /\ IF st.ok
        THEN /\ cur' = [c EXCEPT !.phase = "written"]
             /\ UNCHANGED <<pc, err>>
        ELSE Raise(c, IF path = "create" THEN "RuntimeError" ELSE "IndexError")
  /\ UNCHANGED <<env, topo, modules, upload>>

\* the file a run produced becomes the current SoS of the next run
Gen1_next_run ==
  /\ pc = "gen1_append_data"
  /\ mi = Len(modules)
  /\ cur.run < MaxRuns
  /\ env' = [env EXCEPT !.prior.version = sos.version, !.prior.groups = sos.groups]
  /\ cur' = [NoModule EXCEPT !.run = cur.run + 1]
  /\ sos' = NoFile
  /\ topo' = NoTopo
  /\ mi' = 0
  /\ pc' = "gen1_Append"
  /\ UNCHANGED <<modules, upload, err>>

\* the runs of the copy-and-extend generation (src/src): each run copies
\* the archive the run before produced
NextGen1 ==
  \/ Gen1_Append_init
  \/ Gen1_create_new_version
  \/ Gen1_append_module
  \/ Gen1_next_run

Gen1Spec == InitGen1 /\ [][NextGen1]_vars

Init == InitTest \/ InitMain

Next ==
  \/ get_module_data_begin
  \/ get_module_data_reach
  \/ append_module_data
  \/ Priors_get_module_data
  \/ Priors_append_module_data
  \/ append_module_again
  \/ Append_init
  \/ create_new_version
  \/ create_modules
  \/ append_data_next
  \/ append_data_return
  \/ upload_data

Spec == Init /\ [][Next]_vars

\* ------------------------------------------------------------ properties
\* the reader has gone through row i of the topology
Passed(i) ==
  \/ cur.phase \in {"read", "written"}
  \/ cur.phase = "loop" /\ cur.pos > i

\* the values some result file holds for another reach than r
Foreign(r) == {KnownValue[q] : q \in AllReaches \ {r}}

\* the documented sentinel of the data kind of a variable
Sentinel(m, it) ==
  CASE it.type \in {"f8", "i4", "S1"} -> FILL[it.type]
    [] m = "prediagnostics" -> FILL.i4
    [] OTHER -> FILL.f8

\* the variables of module m that have one row per reach
ReachVars(m) ==
  {it \in Range(WriteItems(m)) : it.kind = "var" /\ it.slot \in {"nr", "nt", "s1"}}

\* the values of one row of a variable
Cells(it, row) == IF it.slot = "nt" THEN Range(row) ELSE {row}

\* C1: for every module reader and every reach r at position i of
\* reach_ids, the values of the result file of r are at row i of every
\* array of the module, and row i holds no value of another reach's file.
C1_ReachRowAlignment ==
  (cur.m \in Modules /\ cur.phase \in {"loop", "read", "written"}) =>
    \A i \in DOMAIN topo.reach_ids :
      LET r == topo.reach_ids[i]
          k == env.files[cur.m][r] IN
      /\ cur.dict.nr[i] \notin Foreign(r)
      /\ HasNt(cur.m) => Range(cur.dict.nt[i]) \cap Foreign(r) = {}
      /\ (Passed(i) /\ Readable(k)) =>
           /\ cur.m # "validation" /\ SrcScalar(r, k) # Masked
                => cur.dict.nr[i] = SrcScalar(r, k)
           /\ HasNt(cur.m) =>
                \A t \in 1..NT :
                  SrcSeries(r, k)[t] # Masked => cur.dict.nt[i][t] = SrcSeries(r, k)[t]

\* the reader of MetroMan has read a set file that lists two reaches in
\* another order than the topology, and each row holds its own reach
C1_Witness ==
  /\ cur.m = "metroman"
  /\ cur.phase = "read"
  /\ env.mn_pair
  /\ env.files["metroman"][topo.reach_ids[1]] = "good"
  /\ cur.dict.nr[1] = KnownValue[topo.reach_ids[1]]
  /\ cur.dict.nr[2] = KnownValue[topo.reach_ids[2]]

\* C2: after the group of a module is written, every field of the module
\* at the row of a reach without result file holds the sentinel of the
\* data kind of the field.
C2_SentinelCompleteness ==
  (cur.m \in Modules /\ cur.phase = "written") =>
    \A it \in ReachVars(cur.m) : \A i \in DOMAIN topo.reach_ids :
      env.files[cur.m][topo.reach_ids[i]] = "absent" =>
        \A v \in Cells(it, sos.groups[it.grp][it.name][i]) : v = Sentinel(cur.m, it)

\* the validation group is written and algo_names of a reach without file
\* is the empty string
C2_Witness ==
  /\ cur.m = "validation"
  /\ cur.phase = "written"
  /\ \E i \in DOMAIN topo.reach_ids :
       /\ env.files["validation"][topo.reach_ids[i]] = "absent"
       /\ sos.groups["validation"]["algo_names"][i] = Empty

\* the per-node sequence the archive holds for reach rid after the write
WrittenNodes(m, rid) ==
  IF m = "sic4dvar"
  THEN LET g == sos.groups["sic4dvar"]
           rows == Where(g["sic4dvar_reach_id"], rid) IN
       [j \in DOMAIN rows |-> g["half_width"][rows[j]]]
  ELSE LET it == CHOOSE x \in Range(WriteItems(m)) : x.slot = "nx"
           rows == Where(sos.groups["nodes"]["reach_id"], rid) IN
       [j \in DOMAIN rows |-> sos.groups[it.grp][it.name][rows[j]]]

\* the sentinel of the per-node variable of module m
NodeSentinel(m) == IF m = "prediagnostics" THEN FILL.i4 ELSE FILL.f8

\* C3: for reach 77444000061 and reach 77444000073 the per-node sequence a
\* module writes has the node count of the topology; the last two
\* (respectively the first) positions hold the sentinel and the entries of
\* the source occupy the other positions in source order.
C3_NodePadding ==
  (cur.phase = "written" /\ HasNx(cur.m)) =>
    \A rid \in {RID_TRAILING, RID_LEADING} \cap Range(topo.reach_ids) :
      env.files[cur.m][rid] = "good" =>
        LET src == SrcNodes(topo, rid, "good")
            pad == NodeSentinel(cur.m) IN
        WrittenNodes(cur.m, rid) =
          IF rid = RID_TRAILING THEN src \o <<pad, pad>> ELSE <<pad>> \o src

\* the sic4dvar group is written with NaN at a padded node of 77444000061
C3_Witness ==
  /\ cur.m = "sic4dvar"
  /\ cur.phase = "written"
  /\ RID_TRAILING \in Range(topo.reach_ids)
  /\ env.files["sic4dvar"][RID_TRAILING] = "good"
  /\ WrittenNodes("sic4dvar", RID_TRAILING)[3] = NaN

\* C4: for every module with per-node data and every topology node n, the
\* data of n is at the row of n in node_ids, and the reach of that row in
\* node_reach_ids is the reach whose result file the data was read from.
C4_NodeRowAlignment ==
  (cur.phase \in {"loop", "read", "written"} /\ HasNx(cur.m)) =>
    \A j \in DOMAIN topo.node_ids :
      LET v == cur.dict.nx[j]
          r == topo.node_reach_ids[j] IN
      /\ v \in Range(topo.node_ids) =>
           /\ v = topo.node_ids[j]
           /\ Readable(env.files[cur.m][r])
      /\ (\E i \in DOMAIN topo.reach_ids :
            /\ topo.reach_ids[i] = r
            /\ Passed(i)
            /\ env.files[cur.m][r] = "good"
            /\ j \in Range(SrcNodeRows(topo, r)))
           => v = topo.node_ids[j]

\* the reader of SWOT has stored the entry of the second node of
\* 77444000073 at the row of its first node
C4_Witness ==
  /\ cur.m = "swot"
  /\ cur.phase = "read"
  /\ topo = Topo2
  /\ cur.dict.nx[4] = Topo2.node_ids[5]

\* a value read back is missing: masked, or the sentinel of its kind
IsMissing(v, s) == v = Masked \/ v = s

\* the writer of module m stores every variable with write_var
UsesWriteVar(m) ==
  \A it \in Range(WriteItems(m)) : it.kind = "var" => it.type # "vlen"

\* C5: for a reach with a result file of known values, reader then writer
\* then reading the archive back gives those values at the row of the
\* reach; source entries that were masked read back as missing (for the
\* modules whose writer stores its variables with write_var).
C5_RoundTrip ==
  (cur.m \in Modules /\ cur.phase = "written" /\ UsesWriteVar(cur.m)) =>
    \A it \in ReachVars(cur.m) : \A i \in DOMAIN topo.reach_ids :
      LET r == topo.reach_ids[i]
          k == env.files[cur.m][r]
          row == sos.groups[it.grp][it.name][i]
          same(x, v) ==
            IF x = Masked THEN IsMissing(ReadBack(it.type, v), Sentinel(cur.m, it))
            ELSE ReadBack(it.type, v) = x IN
      Readable(k) =>
        CASE it.slot = "s1" -> ReadBack(it.type, row) = SrcAlgo
          [] it.slot = "nt" -> \A t \in 1..NT : same(SrcSeries(r, k)[t], row[t])
          [] cur.m = "validation" -> ReadBack(it.type, row) = SrcHasValidation
          [] OTHER -> same(SrcScalar(r, k), row)

\* HiVDI is written from a file of known values and from a file with
\* masked entries: the first reads back as written, the second as masked
C5_Witness ==
  /\ cur.m = "hivdi"
  /\ cur.phase = "written"
  /\ env.files["hivdi"][topo.reach_ids[1]] = "good"
  /\ env.files["hivdi"][topo.reach_ids[2]] = "masked"
  /\ ReadBack("f8", sos.groups["hivdi"]["A0"][1]) = KnownValue[topo.reach_ids[1]]
  /\ ReadBack("f8", sos.groups["hivdi"]["A0"][2]) = Masked
  /\ ReadBack("f8", sos.groups["hivdi"]["Q"][2][NT]) = Masked

\* the result directory of module m holds one file, of reach 20
OnlyReach20(m) ==
  /\ topo = Topo1
  /\ \A r \in Range(Topo1.reach_ids) :
       env.files[m][r] = IF r = "20" THEN "good" ELSE "absent"

\* C6: with reach_ids = [10, 20, 30] and a module whose only result file is
\* the one of reach 20 with A0 = 5.5, the group of the module holds
\* A0 = [SENTINEL, 5.5, SENTINEL] after the read and the write.
C6_ExampleScenario ==
  (cur.phase = "written" /\ cur.m \in {"hivdi", "sad", "sic4dvar"} /\ OnlyReach20(cur.m)) =>
    sos.groups[cur.m]["A0"] = <<FILL.f8, "5.5", FILL.f8>>

C6_Witness ==
  /\ cur.m = "sad"
  /\ cur.phase = "written"
  /\ OnlyReach20("sad")
  /\ KnownValue["20"] = "5.5"
  /\ sos.groups["sad"]["A0"][2] = "5.5"
  /\ sos.groups["sad"]["A0"][1] = FILL.f8

\* C7: create_new_version stamps the new archive with the version of the
\* prior archive plus one, as a string of VERS_LENGTH digits.
C7_VersionBump ==
  (env.entry = "main" /\ sos.exists) =>
    sos.version = padded(str(int(env.prior.version) + 1))

\* the results file of a prior archive of version 0009 carries 0009
C7_Witness ==
  /\ pc = "create_modules"
  /\ env.prior.version = <<0, 0, 0, 9>>
  /\ sos.version = <<0, 0, 0, 9>>

\* the groups the modules of this run write into
RerunGroups ==
  {it.grp : it \in UNION {Range(WriteItems(m)) : m \in Range(env.modules_list)}}

\* C8: every group and variable of version N is in version N+1 with the
\* same data, except the groups of the modules rerun in this run.
C8_Preservation ==
  (env.entry = "main" /\ sos.exists) =>
    \A g \in DOMAIN env.prior.groups \ RerunGroups :
      /\ g \in DOMAIN sos.groups
      /\ \A n \in DOMAIN env.prior.groups[g] :
           /\ n \in DOMAIN sos.groups[g]
           /\ sos.groups[g][n] = env.prior.groups[g][n]

\* the results file exists and lacks the model group of the prior archive
C8_Witness ==
  /\ pc = "create_modules"
  /\ "model" \in DOMAIN env.prior.groups
  /\ "model" \notin DOMAIN sos.groups

\* the run is Finalized: the new version is created, every configured
\* module is appended, the archive file is closed
Finalized ==
  /\ pc \in {"append_data", "upload"}
  /\ sos.exists
  /\ ~sos.open
  /\ err = "None"
  /\ modules = Selected(env.modules_list, env.run_type, 1)
  /\ mi = Len(modules)
  /\ cur.phase \in {"none", "written"}

RaisedAtReach ==
  /\ cur.phase = "raised"
  /\ cur.pos \in DOMAIN topo.reach_ids
  /\ env.files[cur.m][topo.reach_ids[cur.pos]] \in {"corrupt", "nofield"}
  /\ err \in {"OSError", "IndexError"}

\* C10: when the result file of a reach cannot be opened or lacks a field,
\* the reader logs it, leaves the row of the reach at the sentinel and
\* goes on with the remaining reaches; the extraction is not aborted.
C10_ReadFailureIsolated ==
  /\ ~RaisedAtReach
  /\ (cur.m \in Modules /\ cur.phase \in {"loop", "read", "written"}) =>
       \A i \in DOMAIN topo.reach_ids :
         (Passed(i) /\ env.files[cur.m][topo.reach_ids[i]] \in {"corrupt", "nofield"}) =>
           /\ topo.reach_ids[i] \in Range(cur.log)
           /\ cur.dict.nr[i] \in {NaN, FILL.f8, FILL.i4}

\* the reader of HiVDI left get_module_data with the OSError of one file
C10_Witness ==
  /\ cur.m = "hivdi"
  /\ RaisedAtReach
  /\ err = "OSError"
  /\ cur.pos > 1

\* C11: when the read or the write of one module raises, the orchestrator
\* records the failure and goes on with the later modules of the list; the
\* run is not aborted by the failure of one module.
C11_ModuleFailureIsolated ==
  env.entry = "main" => ~(cur.phase = "raised" /\ pc = "aborted")

\* the reader of the first of two modules raised and the run is over with
\* the second module never started
C11_Witness ==
  /\ env.entry = "main"
  /\ cur.phase = "raised"
  /\ pc = "aborted"
  /\ Len(modules) = 2
  /\ mi = 1

\* the result directory of the current module holds no file
EmptyDirectory ==
  /\ cur.m \in Modules
  /\ \A r \in Range(topo.reach_ids) : env.files[cur.m][r] = "absent"

\* C12: when the result directory of a configured module is empty or
\* absent, the reader does not raise and the group of the module is written
\* with the sentinel in every value.
C12_EmptyDirectoryAllSentinel ==
  (cur.run = 1 /\ cur.phase \in {"read", "written", "raised"} /\ EmptyDirectory) =>
    /\ ~(cur.phase = "raised" /\ err \in {"IndexError", "ValueError"})
    /\ cur.phase = "written" =>
         \A it \in ReachVars(cur.m) : \A i \in DOMAIN topo.reach_ids :
           \A v \in Cells(it, sos.groups[it.grp][it.name][i]) : v = Sentinel(cur.m, it)

\* the reader of SAD raised IndexError on an empty result directory
C12_Witness ==
  /\ cur.m = "sad"
  /\ EmptyDirectory
  /\ cur.phase = "raised"
  /\ cur.pos = 0
  /\ err = "IndexError"
  /\ "sad" \notin DOMAIN sos.groups

\* C13: when the topology cannot be loaded or the archive file cannot be
\* created, the run ends at once: no module is read or written and nothing
\* is uploaded.
C13_FatalErrorsTerminate ==
  err \in {"FileNotFoundError", "PermissionError"} =>
    /\ pc = "aborted"
    /\ modules = << >>
    /\ mi = 0
    /\ cur = NoModule
    /\ ~upload.started
    /\ ~sos.exists

\* the run ended in create_new_version with modules configured
C13_Witness ==
  /\ err = "PermissionError"
  /\ pc = "aborted"
  /\ env.modules_list # << >>
  /\ env.prior.exists

\* C14: the modules are written in a fixed canonical order: every module
\* list with the same set of names gives the same sequence of writes.
C14_CanonicalOrder ==
  (env.entry = "main" /\ pc \in {"append_data", "upload"}) =>
    \A ml \in ModuleLists :
      Range(ml) = Range(env.modules_list) => Selected(ml, env.run_type, 1) = modules

\* validation was written before swot because the list named it first
C14_Witness ==
  /\ env.entry = "main"
  /\ modules = <<"validation", "swot">>
  /\ mi = 2
  /\ "validation" \in DOMAIN sos.groups
  /\ <<"swot", "validation">> \in ModuleLists

\* C15: a priors group is written only when the module list names "priors"
\* and the run type is "constrained"; an unconstrained run never creates or
\* writes a priors module.
C15_PriorsOnlyConstrained ==
  /\ (cur.m = "priors" \/ "priors" \in Range(modules) \/ "priors" \in DOMAIN sos.groups)
       => ("priors" \in Range(env.modules_list) /\ env.run_type = "constrained")
  /\ env.run_type = "unconstrained" =>
       /\ "priors" \notin Range(modules)
       /\ cur.m # "priors"
       /\ "priors" \notin DOMAIN sos.groups

\* a constrained run has written the priors group
C15_Witness ==
  /\ env.run_type = "constrained"
  /\ cur.m = "priors"
  /\ cur.phase = "written"
  /\ "priors" \in DOMAIN sos.groups
  /\ sos.groups["priors"] = env.prior.groups["model"]

\* the groups module m creates for itself
OwnGroups(m) ==
  IF m = "priors" THEN {"priors"}
  ELSE IF m \in Modules
  THEN {it.grp : it \in {x \in Range(WriteItems(m)) : x.kind = "group"}}
  ELSE {}

\* the groups some module creates for itself
ModuleGroups == UNION {OwnGroups(m) : m \in Modules \cup {"priors"}}

\* C16: no module write deletes or rewrites the group of another module:
\* after the write of module M every other group holds the variables and
\* the data it held before (a group that is not a module's keeps every
\* variable it had).
C16_NoForeignRewrite ==
  [][\A g \in DOMAIN sos.groups \ OwnGroups(cur.m) :
       /\ g \in DOMAIN sos'.groups
       /\ \A n \in DOMAIN sos.groups[g] :
            /\ n \in DOMAIN sos'.groups[g]
            /\ sos'.groups[g][n] = sos.groups[g][n]
       /\ g \in ModuleGroups => sos'.groups[g] = sos.groups[g]]_vars

\* prediagnostics was written into an archive that held the validation
\* group, and SWOT into the reaches group
C16_Witness ==
  /\ cur.m = "prediagnostics"
  /\ cur.phase = "written"
  /\ "validation" \in DOMAIN sos.groups
  /\ "reach/ice_clim_f" \in DOMAIN sos.groups["prediagnostics"]
  /\ "algo_names" \in DOMAIN sos.groups["validation"]

\* C17: reader and writer of a module run a second time on the same
\* archive and the same inputs succeed and leave the group of the module
\* identical to what the first run wrote.
C17_RerunIdempotent ==
  cur.run = 2 =>
    /\ cur.phase # "raised"
    /\ cur.phase = "written" => sos.groups = cur.first

\* the second append of HiVDI raised in its writer
C17_Witness ==
  /\ cur.m = "hivdi"
  /\ cur.run = 2
  /\ cur.phase = "raised"
  /\ err = "RuntimeError"
  /\ "Q" \in DOMAIN cur.first["hivdi"]

\* C18: the handle of the archive file is released when the write of a
\* module returns and when it fails: the file is closed.
C18_HandleReleased ==
  cur.phase \in {"written", "raised"} => ~sos.open

\* the writer of HiVDI raised and the results file is still open
C18_Witness ==
  /\ cur.m = "hivdi"
  /\ cur.phase = "raised"
  /\ err = "RuntimeError"
  /\ sos.open

\* C19: when the run completes, the archive holds the reaches and nodes
\* groups and one group for every module of the module list (other than
\* "priors" in an unconstrained run).
C19_AllGroupsPresent ==
  (env.entry = "main" /\ pc \in {"upload", "exit"}) =>
    /\ {"reaches", "nodes"} \subseteq DOMAIN sos.groups
    /\ \A m \in Range(env.modules_list) :
         \/ m = "priors" /\ env.run_type = "unconstrained"
         \/ m \in DOMAIN sos.groups

\* append_data returned for the module list ["consensus"] and the archive
\* has no consensus group
C19_Witness ==
  /\ pc = "upload"
  /\ env.modules_list = <<"consensus">>
  /\ "consensus" \notin DOMAIN sos.groups
  /\ err = "None"

\* C20: a run that reaches Finalized uploads the archive file exactly once,
\* a run that does not reach it uploads it zero times.
C20_UploadExactlyOnce ==
  Len(upload.put) = IF upload.started THEN 1 ELSE 0

\* upload_data ran from Finalized and the archive file was not put
C20_Witness ==
  /\ upload.started
  /\ upload.put = << >>
  /\ err = "AttributeError"
  /\ pc = "aborted"

\* C21: during the extraction of a module at most one result file is open:
\* a file opened for a reach is closed before another result file is opened,
\* also when reading that reach fails.
C21_OneFileOpen ==
  cur.m \in Modules => Cardinality(cur.open) <= 1

\* the Consensus reader logged two reaches whose read failed after the file was
\* opened, and neither file was closed
C21_Witness ==
  /\ cur.m = "consensus"
  /\ Len(cur.log) = 2
  /\ Cardinality(cur.open) = 2
  /\ err = "None"

\* the variables the writer of module m puts in group g
GroupVars(m, g) ==
  {it.name : it \in {x \in Range(WriteItems(m)) : x.kind = "var" /\ x.grp = g}}

\* the run cannot take another step
Stopped == pc \in {"aborted", "done", "upload", "exit"}

\* C22: wherever a run stops, also after a failure in the middle of a
\* module's write, the group of every module is absent from the archive or
\* holds all of its variables; no partially written group is left behind.
C22_GroupAtomic ==
  Stopped =>
    \A m \in Modules : \A g \in OwnGroups(m) :
      g \in DOMAIN sos.groups => DOMAIN sos.groups[g] = GroupVars(m, g)

\* the writer of SAD raised on its second variable: the run is over and the
\* sad group holds A0 without Qa
C22_Witness ==
  /\ pc = "aborted"
  /\ cur.m = "sad"
  /\ err = "RuntimeError"
  /\ "sad" \in DOMAIN sos.groups
  /\ DOMAIN sos.groups["sad"] = {"A0"}

\* a step of a module: the loop of append_data, a reader or a writer
ModuleStep == cur' # cur \/ sos'.groups # sos.groups

\* C23: in a run of main the topology is loaded once and create_new_version
\* runs once, both before the first module read or write; a module step is
\* taken only on a results file that create_new_version created and closed.
C23_LoadOnceCreateOnce ==
  [][env.entry = "main" =>
       /\ pc' # "Append"
       /\ topo' # topo => (pc = "Append" /\ topo' = env.prior.topo)
       /\ pc' = "create_new_version" => pc = "Append"
       /\ (sos'.exists # sos.exists \/ sos'.version # sos.version)
            => pc = "create_new_version"
       /\ pc = "create_new_version" => (pc' # pc /\ ~sos.exists /\ cur = NoModule)
       /\ (pc # "create_new_version" /\ ModuleStep) =>
            /\ pc = "append_data"
            /\ topo = env.prior.topo
            /\ sos.exists
            /\ ~sos.open]_vars

\* a module of a run of main wrote its group into the results file made by
\* create_new_version from the loaded topology
C23_Witness ==
  /\ env.entry = "main"
  /\ pc = "append_data"
  /\ cur.phase = "written"
  /\ topo = env.prior.topo
  /\ sos.exists

\* the topology rows of the nodes whose reach has a result file, in
\* topology order
RECURSIVE RowsWithFile(_, _)
RowsWithFile(m, j) ==
  IF j > Len(topo.node_ids) THEN << >>
  ELSE (IF Present(env.files[m][topo.node_reach_ids[j]]) THEN <<j>> ELSE << >>)
       \o RowsWithFile(m, j + 1)

\* C24: entry k of the ragged SIC4DVar variable half_width belongs to the
\* topology node whose id is sic4dvar_node_id[k] and whose reach is
\* sic4dvar_reach_id[k]; the nodes of the reaches that had a result file
\* appear, all of them, each once and in topology node order.
C24_RaggedIndex ==
  (cur.m = "sic4dvar" /\ cur.phase = "written") =>
    LET g    == sos.groups["sic4dvar"]
        rows == RowsWithFile("sic4dvar", 1) IN
    /\ Len(g["sic4dvar_node_id"]) = Len(rows)
    /\ Len(g["sic4dvar_reach_id"]) = Len(rows)
    /\ Len(g["half_width"]) = Len(rows)
    /\ \A k \in DOMAIN rows :
         /\ g["sic4dvar_node_id"][k] = topo.node_ids[rows[k]]
         /\ g["sic4dvar_reach_id"][k] = topo.node_reach_ids[rows[k]]
         /\ g["half_width"][k] =
              IF rows[k] \in Range(SrcNodeRows(topo, topo.node_reach_ids[rows[k]]))
              THEN topo.node_ids[rows[k]]
              ELSE NaN

\* the sic4dvar group was written from the files of two of the three
\* reaches of the second topology: five of its six nodes are indexed
C24_Witness ==
  /\ cur.m = "sic4dvar"
  /\ cur.phase = "written"
  /\ topo = Topo2
  /\ Len(sos.groups["sic4dvar"]["sic4dvar_node_id"]) = 5
  /\ sos.groups["sic4dvar"]["sic4dvar_reach_id"][4] = RID_LEADING

\* C25: an attribute that is in the metadata configuration and in the
\* source file (a global attribute of the priors file, an attribute of a
\* variable of a result file) is written with the value of the metadata
\* configuration.
C25_MetadataPrecedence ==
  sos.exists =>
    /\ env.entry = "main" =>
         \A n \in DOMAIN env.metadata.global \cap DOMAIN env.prior.atts :
           sos.atts[n] = env.metadata.global[n]
    /\ \A k \in DOMAIN sos.vatts \cap MetaVars :
         \A n \in DOMAIN env.metadata.vars[k] \cap DOMAIN SrcAttrs(k[2]) :
           sos.vatts[k][n] = env.metadata.vars[k][n]

\* create_new_version made the results file from a global attribute
\* document that has a run_type entry, and the file has the run_type of the
\* priors file
C25_Witness ==
  /\ pc = "create_modules"
  /\ sos.exists
  /\ "run_type" \in DOMAIN env.metadata.global
  /\ sos.atts["run_type"] = env.prior.atts["run_type"]
  /\ sos.atts["run_type"] # env.metadata.global["run_type"]

\* C26: every attribute of a written variable comes from the attributes of
\* that same variable in the source file or from the metadata configuration
\* entry of that variable; none is invented or taken from another variable.
C26_AttributeProvenance ==
  \A k \in DOMAIN sos.vatts :
    \A n \in DOMAIN sos.vatts[k] :
      sos.vatts[k][n] \in {<<"file", k[2]>>, <<"json", k[2]>>}

\* Prediagnostics wrote reach/slope_outliers with the comment attribute of
\* reach/slope2_outliers
C26_Witness ==
  /\ cur.m = "prediagnostics"
  /\ cur.phase = "written"
  /\ <<"prediagnostics", "reach/slope_outliers">> \in DOMAIN sos.vatts
  /\ "comment" \in DOMAIN sos.vatts[<<"prediagnostics", "reach/slope_outliers">>]
  /\ sos.vatts[<<"prediagnostics", "reach/slope_outliers">>]["comment"]
       = <<"file", "reach/slope2_outliers">>

\* C27: the version in the key the archive file is uploaded under equals
\* the global version attribute of the archive file that is uploaded.
C27_UploadKeyVersion ==
  upload.started => upload.vers = sos.version

\* upload_data built the key of a results file of version 0009 with 0010
C27_Witness ==
  /\ upload.started
  /\ sos.version = <<0, 0, 0, 9>>
  /\ upload.vers = <<0, 0, 1, 0>>

\* a run of main with a priors file that loads and has its model group, a
\* results file that can be created and a readable file of known values for
\* every reach of every module of the module list
WellFormedRun ==
  /\ env.entry = "main"
  /\ env.prior.exists
  /\ env.creatable
  /\ "model" \in DOMAIN env.prior.groups
  /\ \A m \in Range(env.modules_list) \cap Modules :
       \A r \in Range(env.prior.topo.reach_ids) : env.files[m][r] = "good"

\* the runs of main on well-formed inputs
InitWellFormed == InitMain /\ WellFormedRun

\* the steps of a run of main
NextMain ==
  \/ Append_init
  \/ create_new_version
  \/ create_modules
  \/ append_data_next
  \/ get_module_data_begin
  \/ get_module_data_reach
  \/ append_module_data
  \/ Priors_get_module_data
  \/ Priors_append_module_data
  \/ append_data_return
  \/ upload_data

\* main is one sequential program: a step that can be taken is taken
FairSpec == InitWellFormed /\ [][NextMain]_vars /\ WF_vars(NextMain)

\* C28: a run of main with a loadable topology, a creatable archive file
\* and well-formed result files for every configured module eventually
\* reaches Finalized and goes on to the upload; it does not stop with an
\* error before every configured module has been appended.
C28_EventuallyFinalized ==
  WellFormedRun ~> (upload.started /\ cur.phase # "raised")

\* a well-formed run with module list ["hivdi"] is over: the writer of
\* HiVDI raised and upload_data never started
C28_Witness ==
  /\ WellFormedRun
  /\ env.modules_list = <<"hivdi">>
  /\ pc = "aborted"
  /\ cur.m = "hivdi"
  /\ err = "RuntimeError"
  /\ ~upload.started

\* the dimensions the writer of module m has created itself before item p
DimsBefore(m, p) ==
  {WriteItems(m)[q].name : q \in {x \in 1..(p - 1) : WriteItems(m)[x].kind = "dim"}}

\* C29: when a module writer is to create a variable, every dimension the
\* variable names (num_reaches, num_nodes, time_steps or a dimension of the
\* module) is in the archive already: create_new_version made it, or the
\* same write did before.
C29_DimensionsExist ==
  (cur.m \in Modules /\ cur.phase = "read" /\ cur.run = 1) =>
    \A p \in DOMAIN WriteItems(cur.m) :
      WriteItems(cur.m)[p].kind = "var" =>
        WriteItems(cur.m)[p].dims \subseteq sos.dims \cup DimsBefore(cur.m, p)

\* in a run of main the reader of HiVDI has returned and the results file
\* of create_new_version has no time_steps dimension for Q
C29_Witness ==
  /\ env.entry = "main"
  /\ cur.m = "hivdi"
  /\ cur.phase = "read"
  /\ sos.dims = {"num_reaches", "num_nodes"}

\* the variables of module m of the copy-and-extend generation that are in
\* the archive
Gen1Existing(m) ==
  {it \in Range(Gen1Items(m)) :
     /\ it.kind = "var"
     /\ it.grp \in DOMAIN sos.groups
     /\ it.name \in DOMAIN sos.groups[it.grp]}

Gen1Vars(m) == {it \in Range(Gen1Items(m)) : it.kind = "var"}

\* C30: in every run of a sequence of copy-and-extend runs a module takes
\* the create path only when the variables of its group are not in the
\* archive and the insert path only when they are: it never creates a
\* variable that exists and never inserts into one that is absent.
C30_CreateInsertPath ==
  (env.entry = "gen1" /\ pc = "gen1_append_data" /\ mi < Len(modules)) =>
    LET m == modules[mi + 1] IN
    /\ Gen1Path(m, sos.version) = "create" => Gen1Existing(m) = {}
    /\ Gen1Path(m, sos.version) = "insert" => Gen1Existing(m) = Gen1Vars(m)

\* the second run copied the archive of the first, which has the moi group,
\* and Moi is about to take the create path
C30_Witness ==
  /\ env.entry = "gen1"
  /\ pc = "gen1_append_data"
  /\ cur.run = 2
  /\ mi = 0
  /\ Gen1Path("moi", sos.version) = "create"
  /\ Gen1Existing("moi") = Gen1Vars("moi")

====
